---- MODULE Spec2Model ----
(***************************************************************************)
(* Tethys: natural-language questions about ARGO profile data are turned   *)
(* into SQL by a text generator, sanitized, run and summarized.  Three     *)
(* front ends share the design:                                            *)
(*   "dashboard"  Frontend/stream_app.py on top of engine/rag_engine.py    *)
(*   "cli"        engine/main_app.py                                       *)
(*   "chat"       Frontend/streamlit_app.py                                *)
(*                                                                         *)
(* SQL text is modelled as a sequence of lexical tokens [k, v]:            *)
(*   k = "w"    a bare word (keyword or identifier), v its spelling        *)
(*   k = "n"    a number, v its digits                                     *)
(*   k = "s"    a single-quoted string literal whose content is the word v *)
(*   k = "bc"   a block comment  /* v */                                   *)
(*   k = "lc"   a line comment   -- v <newline>                            *)
(*   k = "lp", "rp"   parentheses                                          *)
(*   k = "p"    another punctuation mark or operator, v its spelling       *)
(*   k = "semi" the statement separator ';', v the white space after it    *)
(*              ("" none, " " a blank, "\n" a line break)                  *)
(*   k = "fence" a code fence: ```sql when v = "sql", a bare ``` when ""   *)
(*   k = "note" a line of its own that opens with '[' (an explanation)     *)
(* Tokens are separated by one blank, except that ';' follows its left     *)
(* neighbour directly and is followed by its own v.  The input language    *)
(* has balanced parentheses, no ';' inside parentheses, no comment next to *)
(* a ';', no ';' directly after a ';' that has white space after it, and   *)
(* no optimizer-hint comments.                                             *)
(***************************************************************************)
EXTENDS Integers, Sequences, FiniteSets, TLC

\* ------------------------------------------------------------------ bounds

\* Longest candidate, counted in phrases, handed to a sanitizer.
MaxPhrases == 3

\* Longest raw generator output, counted in phrases, in a pipeline run.
MaxRawPhrases == 3

\* Most requests one session submits.
MaxRequests == 2

\* ------------------------------------------------------------------ tokens

W(s) == [k |-> "w", v |-> s]

N(s) == [k |-> "n", v |-> s]

S(s) == [k |-> "s", v |-> s]

BC(s) == [k |-> "bc", v |-> s]

LC(s) == [k |-> "lc", v |-> s]

LP == [k |-> "lp", v |-> "("]

RP == [k |-> "rp", v |-> ")"]

P(s) == [k |-> "p", v |-> s]

Semi(ws) == [k |-> "semi", v |-> ws]

Fence(tag) == [k |-> "fence", v |-> tag]

Note(s) == [k |-> "note", v |-> s]

\* str.upper() on the spellings that occur; a spelling without an entry is
\* already upper case.
UpMap ==
    ("select" :> "SELECT") @@ ("drop" :> "DROP") @@ ("Drop" :> "DROP") @@
    ("insert" :> "INSERT") @@ ("with" :> "WITH") @@ ("from" :> "FROM") @@
    ("join" :> "JOIN") @@ ("limit" :> "LIMIT") @@ ("as" :> "AS") @@
    ("x" :> "X") @@ ("t" :> "T") @@ ("profiles" :> "PROFILES") @@
    ("Profiles" :> "PROFILES") @@ ("users" :> "USERS") @@
    ("limit_col" :> "LIMIT_COL") @@ ("created_at" :> "CREATED_AT") @@
    ("updated" :> "UPDATED") @@ ("pressure" :> "PRESSURE") @@
    ("temperature" :> "TEMPERATURE") @@ ("latitude" :> "LATITUDE")

Upper(s) == IF s \in DOMAIN UpMap THEN UpMap[s] ELSE s

\* str.lower() on the spellings that occur; a spelling without an entry is
\* already lower case.
LowMap ==
    ("PROFILES" :> "profiles") @@ ("Profiles" :> "profiles") @@
    ("USERS" :> "users") @@ ("X" :> "x") @@ ("T" :> "t") @@
    ("LIMIT_COL" :> "limit_col") @@ ("CREATED_AT" :> "created_at") @@
    ("UPDATED" :> "updated") @@ ("PRESSURE" :> "pressure") @@
    ("TEMPERATURE" :> "temperature") @@ ("LATITUDE" :> "latitude")

Lower(s) == IF s \in DOMAIN LowMap THEN LowMap[s] ELSE s

\* The upper-case spellings that contain the substring LIMIT.
HasLimitSubstring(u) == u \in {"LIMIT", "LIMIT_COL"}

\* The words sqlparse lexes as keywords (the ones that occur).
SqlKeywords ==
    {"SELECT", "WITH", "FROM", "JOIN", "LIMIT", "AS", "TABLE", "WHERE",
     "BETWEEN", "AND",
     "INSERT", "UPDATE", "DELETE", "DROP", "ALTER", "CREATE", "TRUNCATE",
     "GRANT", "REVOKE"}

IsKeyword(t) == t.k = "w" /\ Upper(t.v) \in SqlKeywords

\* A name: a bare word that is no keyword (sqlparse groups it as Identifier).
IsName(t) == t.k = "w" /\ Upper(t.v) \notin SqlKeywords

IsComment(t) == t.k \in {"bc", "lc"}

\* Tokens whose text is made of word characters next to their neighbours.
IsWordLike(t) == t.k \in {"w", "n"}

\* Tokens that hold a run of word characters (a string literal holds one
\* between its quotes).
HoldsWord(t) == t.k \in {"w", "n", "s"}

\* ------------------------------------------------- sqlparse.format(...).strip()

\* keyword_case='upper': every keyword token is rewritten in upper case;
\* names, literals and comments keep their spelling.
UpperKeywords(sql) ==
    [i \in 1..Len(sql) |-> IF IsKeyword(sql[i]) THEN W(Upper(sql[i].v)) ELSE sql[i]]

\* strip_comments=True: every comment is replaced by white space.
StripComments(sql) == SelectSeq(sql, LAMBDA t : ~IsComment(t))

\* The statements are split after each ';' (the blanks that follow it stay
\* with the statement it ends, a line break does not), each is right-stripped
\* by the serializer and the results are joined with nothing in between: a
\* blank after ';' is lost, a line break is kept.
JoinStatements(sql) ==
    [i \in 1..Len(sql) |->
        IF sql[i].k = "semi" /\ sql[i].v = " " THEN Semi("") ELSE sql[i]]

\* str.strip(): white space after a final ';' is removed.
Strip(sql) ==
    IF sql # <<>> /\ sql[Len(sql)].k = "semi"
    THEN [sql EXCEPT ![Len(sql)] = Semi("")]
    ELSE sql

\* parsed = sqlparse.format(sql, keyword_case='upper', strip_comments=True).strip()
Format(sql) == Strip(JoinStatements(StripComments(UpperKeywords(sql))))

\* ------------------------------------------------------------ the sanitizers

ForbiddenKeywords ==
    <<"INSERT", "UPDATE", "DELETE", "DROP", "ALTER", "CREATE", "TRUNCATE",
      "GRANT", "REVOKE">>

\* main_app.py also lists the statement separator.
ForbiddenMain == Append(ForbiddenKeywords, ";")

ALLOWED_TABLES == {"profiles"}

\* re.match in place of re.search: the pattern is looked for at the start of
\* the text only.
ReMatchAtStart(f, parsed) ==
    /\ f # ";"
    /\ parsed # <<>>
    /\ HoldsWord(parsed[1]) /\ parsed[1].k # "s" /\ Upper(parsed[1].v) = f

\* re.search(r"\b" + f + r"\b", parsed, flags=re.IGNORECASE): f stands in the
\* text with a word boundary on both sides.  For a keyword that is a whole run
\* of word characters equal to f up to case; for ";" it is a ';' with a word
\* character directly before and directly after it.
ReSearch(f, parsed) ==
    IF f = ";"
    THEN \E i \in 2..(Len(parsed) - 1) :
            /\ parsed[i].k = "semi" /\ parsed[i].v = ""
            /\ IsWordLike(parsed[i - 1]) /\ IsWordLike(parsed[i + 1])
    ELSE \E i \in 1..Len(parsed) : HoldsWord(parsed[i]) /\ Upper(parsed[i].v) = f

\* The loop run to its end, remembering the last entry found in the text.
LastForbidden(forbidden, parsed) ==
    LET hits == {i \in 1..Len(forbidden) : ReSearch(forbidden[i], parsed)}
    IN  IF hits = {} THEN 0 ELSE CHOOSE i \in hits : \A j \in hits : i >= j

\* The for loop over the forbidden list: the index of the first entry found
\* in the text, 0 when none is.
FirstForbidden(forbidden, parsed) ==
    LET hits == {i \in 1..Len(forbidden) : ReSearch(forbidden[i], parsed)}
    IN  IF hits = {} THEN 0 ELSE CHOOSE i \in hits : \A j \in hits : i <= j

\* re.search(r"^\s*(SELECT|WITH)\b", parsed, flags=re.IGNORECASE)
StartsWith(parsed, entry) ==
    parsed # <<>> /\ parsed[1].k = "w" /\ Upper(parsed[1].v) \in entry

\* "LIMIT" in parsed.upper(): a substring test on the whole text.
ContainsLimit(parsed) ==
    \E i \in 1..Len(parsed) :
        HoldsWord(parsed[i]) /\ HasLimitSubstring(Upper(parsed[i].v))

\* parsed += " LIMIT 1000": the clause goes after whatever ends the text.
AppendLimit(parsed) ==
    (IF parsed # <<>> /\ parsed[Len(parsed)].k = "semi"
     THEN [parsed EXCEPT ![Len(parsed)] = Semi(" ")]
     ELSE parsed) \o <<W("LIMIT"), N("1000")>>

\* A sanitizer returns the text or raises ValueError; the rule names the
\* message raised and token what the message quotes.
Accept(text) == [ok |-> TRUE, text |-> text, rule |-> "none", token |-> <<>>]

Reject(rule, token) == [ok |-> FALSE, text |-> <<>>, rule |-> rule, token |-> token]

\* RAG_Engine._sanitize_sql
SanitizeRag(sql) ==
    LET parsed == Format(sql)
        h == FirstForbidden(ForbiddenKeywords, parsed)
    IN  IF h # 0 THEN Reject("forbidden_keyword", <<ForbiddenKeywords[h]>>)
        ELSE IF ~StartsWith(parsed, {"SELECT"}) THEN Reject("entry_point", <<>>)
        ELSE Accept(parsed)

\* streamlit_app.sanitize_sql
SanitizeChat(sql) ==
    LET parsed == Format(sql)
        h == FirstForbidden(ForbiddenKeywords, parsed)
    IN  IF h # 0 THEN Reject("forbidden_keyword", <<ForbiddenKeywords[h]>>)
        ELSE IF ~StartsWith(parsed, {"SELECT", "WITH"}) THEN Reject("entry_point", <<>>)
        ELSE IF ~ContainsLimit(parsed) THEN Accept(AppendLimit(parsed))
        ELSE Accept(parsed)

\* sqlparse.parse(parsed)[0]: the first statement, up to and with its ';'.
FirstStatement(parsed) ==
    LET semis == {i \in 1..Len(parsed) : parsed[i].k = "semi"}
    IN  IF semis = {} THEN parsed
        ELSE SubSeq(parsed, 1, CHOOSE i \in semis : \A j \in semis : i <= j)

\* The group sqlparse builds from the name at position i: the name alone, the
\* name with the alias that follows it, or the name with the parenthesis that
\* follows it (a function call).  Given as the words of token.value.
GroupAt(toks, i) ==
    IF i < Len(toks) /\ IsName(toks[i + 1]) THEN <<toks[i].v, toks[i + 1].v>>
    ELSE IF i < Len(toks) /\ toks[i + 1].k = "lp" THEN <<toks[i].v, "(">>
    ELSE <<toks[i].v>>

\* The loop over the top-level tokens of the first statement (main_app.py):
\* after the keyword FROM the next group token (ttype None) must be an allowed
\* table.  Tokens inside a parenthesis are not top-level.  The result is the
\* words of the group the loop raises on, <<>> when it raises on none.
RECURSIVE TableScan(_, _, _, _)
TableScan(toks, i, depth, from_clause) ==
    IF i > Len(toks) THEN <<>>
    ELSE LET t == toks[i] IN
         IF depth > 0
         THEN TableScan(toks, i + 1,
                        IF t.k = "lp" THEN depth + 1
                        ELSE IF t.k = "rp" THEN depth - 1 ELSE depth,
                        from_clause)
         ELSE IF t.k = "lp"
         THEN IF from_clause THEN <<"(">>
              ELSE TableScan(toks, i + 1, 1, from_clause)
         ELSE IF IsKeyword(t) /\ Upper(t.v) = "FROM"
         THEN TableScan(toks, i + 1, 0, TRUE)
         ELSE IF from_clause /\ IsName(t)
         THEN LET grp == GroupAt(toks, i) IN
              IF Len(grp) = 1 /\ Lower(grp[1]) \in ALLOWED_TABLES
              THEN TableScan(toks, i + 1, 0, FALSE)
              ELSE grp
         ELSE TableScan(toks, i + 1, depth, from_clause)

\* main_app.sanitize_sql
SanitizeMain(sql) ==
    LET parsed == Format(sql)
        h == FirstForbidden(ForbiddenMain, parsed)
        bad == TableScan(FirstStatement(parsed), 1, 0, FALSE)
    IN  IF h # 0 THEN Reject("forbidden_keyword", <<ForbiddenMain[h]>>)
        ELSE IF ~StartsWith(parsed, {"SELECT"}) THEN Reject("entry_point", <<>>)
        ELSE IF bad # <<>> THEN Reject("table_not_allowed", bad)
        ELSE IF ~ContainsLimit(parsed) THEN Accept(AppendLimit(parsed))
        ELSE Accept(parsed)

Apps == {"dashboard", "cli", "chat"}

\* The sanitizer each front end runs before it queries the database.
Sanitize(a, sql) ==
    CASE a = "dashboard" -> SanitizeRag(sql)
      [] a = "cli" -> SanitizeMain(sql)
      [] a = "chat" -> SanitizeChat(sql)

\* ------------------------------------------------------- candidate statements

PSelect == <<W("SELECT"), W("x")>>

\* SELECT *
PSelectStar == <<W("SELECT"), P("*")>>

PFromProfiles == <<W("FROM"), W("profiles")>>

PFromUsers == <<W("FROM"), W("users")>>

PJoinUsers == <<W("JOIN"), W("users")>>

PSubqueryUsers == <<LP, W("SELECT"), W("x"), W("FROM"), W("users"), RP>>

PWithProfiles ==
    <<W("WITH"), W("t"), W("AS"), LP, W("SELECT"), W("x"), W("FROM"),
      W("profiles"), RP>>

PWithUsers ==
    <<W("WITH"), W("t"), W("AS"), LP, W("SELECT"), W("x"), W("FROM"),
      W("users"), RP>>

\* SELECT pressure, temperature FROM profiles WHERE latitude BETWEEN -40 AND -10
PScenario ==
    <<W("SELECT"), W("pressure"), P(","), W("temperature"), W("FROM"),
      W("profiles"), W("WHERE"), W("latitude"), W("BETWEEN"), P("-"), N("40"),
      W("AND"), P("-"), N("10")>>

PLimitBig == <<W("LIMIT"), N("5000")>>

PLimitSmall == <<W("limit"), N("10")>>

PLimitCol == <<W("limit_col")>>

PLimitString == <<S("limit")>>

PDropTable == <<W("DROP"), W("TABLE"), W("profiles")>>

PDropLower == <<W("drop")>>

PInsert == <<W("insert")>>

PDropString == <<S("drop")>>

PDropBlockComment == <<BC("drop")>>

PDropLineComment == <<LC("DROP")>>

PCreatedAt == <<W("created_at")>>

PUpdated == <<W("updated")>>

PSemi == <<Semi("")>>

PSemiBlank == <<Semi(" ")>>

PSemiBreak == <<Semi("\n")>>

\* What the generator may emit when the question is about keywords, about
\* tables and statement stacking, and about row limits.
KeywordPhrases ==
    {PSelect, PWithProfiles, PFromProfiles, PDropTable, PDropLower, PInsert,
     PDropString, PDropBlockComment, PDropLineComment, PCreatedAt, PUpdated}

TablePhrases ==
    {PSelect, PSelectStar, PFromProfiles, PFromUsers, PJoinUsers, PSubqueryUsers,
     PWithUsers, PSemi, PSemiBlank, PSemiBreak}

LimitPhrases ==
    {PSelect, PFromProfiles, PScenario, PLimitBig, PLimitSmall, PLimitCol,
     PLimitString, PSemi, PSemiBlank, PSemiBreak}

\* The texts made of at most n phrases.
RECURSIVE Texts(_, _)
Texts(phrases, n) ==
    IF n = 0 THEN {<<>>}
    ELSE LET shorter == Texts(phrases, n - 1)
         IN  shorter \cup {c \o p : c \in shorter, p \in phrases}

\* The input language (see the head of the module).
WellFormed(c) ==
    \A i \in 1..(Len(c) - 1) :
        /\ ~(IsComment(c[i]) /\ c[i + 1].k = "semi")
        /\ ~(c[i].k = "semi" /\ IsComment(c[i + 1]))
        /\ ~(c[i].k = "semi" /\ c[i].v # "" /\ c[i + 1].k = "semi")

Candidates(phrases) == {c \in Texts(phrases, MaxPhrases) : WellFormed(c)}

\* ------------------------------------------- generate_sql: output extraction

\* The least member of a set of positions, 0 for the empty set.
Least(hits) == IF hits = {} THEN 0 ELSE CHOOSE i \in hits : \A j \in hits : i <= j

\* The position of the first token of kind k in s, 0 when there is none.
\* A "```" is found in "```sql" too: both are of kind "fence".
FirstOfKind(s, k) == Least({i \in 1..Len(s) : s[i].k = k})

\* The position of the first ```sql in s, 0 when there is none.
FirstFenceSql(s) == Least({i \in 1..Len(s) : s[i] = Fence("sql")})

\* sql_query.split("```sql")[1]: what stands between the first ```sql and the
\* next ```sql (or the end).
AfterFenceSql(s) ==
    LET rest == SubSeq(s, FirstFenceSql(s) + 1, Len(s))
    IN  IF FirstFenceSql(rest) = 0 THEN rest
        ELSE SubSeq(rest, 1, FirstFenceSql(rest) - 1)

\* split(...)[0]: what stands before position i.
Before(s, i) == SubSeq(s, 1, i - 1)

\* The two fence rules every generate_sql shares.
Unfence(s) ==
    LET s1 == IF FirstFenceSql(s) # 0 THEN Strip(AfterFenceSql(s)) ELSE s
    IN  IF FirstOfKind(s1, "fence") # 0
        THEN Strip(Before(s1, FirstOfKind(s1, "fence")))
        ELSE s1

\* if ';' in sql_query: sql_query = sql_query.split(';')[0] + ';'
CutAtSemi(s) ==
    IF FirstOfKind(s, "semi") # 0
    THEN Before(s, FirstOfKind(s, "semi")) \o <<Semi("")>>
    ELSE s

\* RAG_Engine.generate_sql, after the completion call
ExtractRag(raw) == CutAtSemi(Unfence(Strip(raw)))

\* main_app.generate_sql, after the completion call
ExtractMain(raw) == Unfence(raw)

\* streamlit_app.generate_sql, after the completion call
ExtractChat(raw) ==
    LET s == Unfence(Strip(raw))
        lines == IF FirstOfKind(s, "note") # 0
                 THEN Before(s, FirstOfKind(s, "note"))
                 ELSE s
    IN  CutAtSemi(Strip(lines))

Extract(a, raw) ==
    CASE a = "dashboard" -> ExtractRag(raw)
      [] a = "cli" -> ExtractMain(raw)
      [] a = "chat" -> ExtractChat(raw)

PFenceSql == <<Fence("sql")>>

PFence == <<Fence("")>>

PNote == <<Note("explanation")>>

\* ```sql, SELECT 1; on a line of its own, ```
PFencedOne == <<Fence("sql"), W("SELECT"), N("1"), Semi("\n"), Fence("")>>

\* What the generator may emit in a pipeline run.
RawPhrases ==
    {PSelect, PFromProfiles, PFromUsers, PDropTable, PLimitBig, PSemi,
     PFenceSql, PFence, PNote, PFencedOne}

RawOutputs == {c \in Texts(RawPhrases, MaxRawPhrases) : WellFormed(c)}

\* --------------------------------------------------------------------- state

VARIABLES
    inp,        \* a candidate statement handed to a sanitizer
    san,        \* the front end whose sanitizer ran on inp, "none" before
    res,        \* what that sanitizer returned or raised
    again,      \* what it returned or raised on its own output
    app,        \* the front end that serves the request
    pc,         \* the stage the request is in
    processing, \* st.session_state.processing (dashboard)
    requests,   \* the requests submitted so far
    question,   \* the question text of the request
    index,      \* the vector index as this request finds it
    context,    \* the context retrieved: "unset", "" or "docs"
    retrieved,  \* the retrievals made for this request
    generated,  \* the SQL completions called for this request
    raw,        \* the text the SQL completion returned
    sql_query,  \* the candidate statement generate_sql returned
    sql_cache,  \* st.cache_data of generate_sql: {[q, sql]} (chat)
    fetch_cache, \* st.cache_data of run_sql_fetch: {[sql, df]} (chat)
    checked_out, \* the connections of the engine's pool that are checked out
    last_result, \* st.session_state.last_result (dashboard)
    verdict,    \* what the sanitizer returned or raised for this request
    db_sql,     \* the texts handed to pd.read_sql for this request
    df,         \* the result: "unset", "none" (None), "empty" or "rows"
    summarized, \* the summary completions called for this request
    summary,    \* the summary text
    outcome     \* what the caller is shown

harness == <<inp, san, res, again>>

\* What one request sets and the next one starts afresh.
request ==
    <<pc, processing, question, index, context, retrieved, generated, raw,
      sql_query, verdict, db_sql, df, summarized, summary, outcome>>

\* What lives as long as the process.
session == <<app, requests, sql_cache, fetch_cache, checked_out, last_result>>

pipeline == <<request, session>>

vars == <<harness, pipeline>>

Pending == [ok |-> FALSE, text |-> <<>>, rule |-> "pending", token |-> <<>>]

\* last_result when it is None or not yet in the session state.
NoResult == [req |-> 0, summary |-> "none", sql |-> <<>>, df |-> "unset"]

HarnessIdle ==
    /\ inp = <<>>
    /\ san = "none"
    /\ res = Pending
    /\ again = Pending

\* No request is in progress and nothing is left of an earlier one.
RequestIdle ==
    /\ pc = "idle"
    /\ processing = FALSE
    /\ question = "none"
    /\ index = "unknown"
    /\ context = "unset"
    /\ retrieved = 0
    /\ generated = 0
    /\ raw = <<>>
    /\ sql_query = <<>>
    /\ verdict = Pending
    /\ db_sql = <<>>
    /\ df = "unset"
    /\ summarized = 0
    /\ summary = "none"
    /\ outcome = "none"

PipelineIdle ==
    /\ RequestIdle
    /\ requests = 0
    /\ sql_cache = {}
    /\ fetch_cache = {}
    /\ checked_out = 0
    /\ last_result = NoResult

InitSanitizer(phrases) ==
    /\ inp \in Candidates(phrases)
    /\ san = "none"
    /\ res = Pending
    /\ again = Pending
    /\ app = "none"
    /\ PipelineIdle

\* One front end's sanitizer is run on the candidate.
Validate(a) ==
    /\ app = "none"
    /\ san = "none"
    /\ san' = a
    /\ res' = Sanitize(a, inp)
    /\ UNCHANGED <<inp, again, pipeline>>

\* The validated statement is validated once more by the same sanitizer.
Revalidate ==
    /\ san # "none"
    /\ res.ok
    /\ again = Pending
    /\ again' = Sanitize(san, res.text)
    /\ UNCHANGED <<inp, san, res, pipeline>>

NextSanitizer == (\E a \in Apps : Validate(a)) \/ Revalidate

SpecKeywords == InitSanitizer(KeywordPhrases) /\ [][NextSanitizer]_vars

SpecTables == InitSanitizer(TablePhrases) /\ [][NextSanitizer]_vars

SpecLimits == InitSanitizer(LimitPhrases) /\ [][NextSanitizer]_vars

\* The row cap the sanitizers append.
MaxRows == 1000

NumVal == ("10" :> 10) @@ ("40" :> 40) @@ ("1000" :> 1000) @@ ("5000" :> 5000)

ForbiddenSet == {ForbiddenKeywords[i] : i \in 1..Len(ForbiddenKeywords)}

\* The candidate has a forbidden keyword as a bare word, in any letter case.
HasForbiddenWord(c) ==
    \E i \in 1..Len(c) : c[i].k = "w" /\ Upper(c[i].v) \in ForbiddenSet

\* The candidate has a comment whose content is a forbidden keyword.
HasForbiddenComment(c) ==
    \E i \in 1..Len(c) : IsComment(c[i]) /\ Upper(c[i].v) \in ForbiddenSet

RejectedAsForbidden == ~res.ok /\ res.rule = "forbidden_keyword"

\* C1 as stated: a forbidden keyword as a whole token, in any letter case,
\* inside or outside a comment, makes every sanitizer reject the candidate
\* with the forbidden-keyword rule.
C1_ForbiddenAnywhereRejected ==
    (san # "none" /\ (HasForbiddenWord(inp) \/ HasForbiddenComment(inp)))
        => RejectedAsForbidden

\* C1 amended: a forbidden keyword that stands as a whole token outside every
\* comment, in any letter case, makes every sanitizer reject the candidate
\* with the forbidden-keyword rule (a keyword that stands only inside a
\* comment is removed with the comment and rejects nothing).
C1_ForbiddenOutsideCommentRejected ==
    (san # "none" /\ HasForbiddenWord(inp)) => RejectedAsForbidden

\* A lower-case drop after a SELECT, with a DROP in a comment as well, was
\* rejected by the chat sanitizer.
C1_Witness ==
    /\ san = "chat"
    /\ inp = PSelect \o PDropLower \o PDropBlockComment
    /\ RejectedAsForbidden

\* -------------------------------------------------------------- C2, C5

\* The names that follow a FROM or a JOIN anywhere in the text, at top level
\* or inside parentheses, in lower case.
ReferencedTables(c) ==
    {Lower(c[i + 1].v) :
        i \in {j \in 1..(Len(c) - 1) :
                 /\ IsKeyword(c[j]) /\ Upper(c[j].v) \in {"FROM", "JOIN"}
                 /\ IsName(c[j + 1])}}

\* C2: every table a validated statement names after FROM or JOIN (top level,
\* subquery, common-table-expression body) is in the allow-list, and a
\* candidate that names another table there is rejected.
C2_OnlyAllowedTables ==
    san # "none" =>
        /\ res.ok => ReferencedTables(res.text) \subseteq ALLOWED_TABLES
        /\ ~(ReferencedTables(inp) \subseteq ALLOWED_TABLES) => ~res.ok

\* The candidate is two statements joined by a ';', each of which begins
\* with SELECT and is accepted by sanitizer a when it stands alone.
TwoSelectsJoined(a, c) ==
    \E i \in 2..(Len(c) - 1) :
        LET first == SubSeq(c, 1, i - 1)
            second == SubSeq(c, i + 1, Len(c))
        IN  /\ c[i].k = "semi"
            /\ FirstOfKind(first, "semi") = 0 /\ FirstOfKind(second, "semi") = 0
            /\ StartsWith(first, {"SELECT"}) /\ StartsWith(second, {"SELECT"})
            /\ Sanitize(a, first).ok /\ Sanitize(a, second).ok

\* C5: two SELECT statements joined by ';', with or without white space
\* after it, are rejected although each alone is accepted.
C5_StackedSelectsRejected ==
    (san # "none" /\ TwoSelectsJoined(san, inp)) => ~res.ok

\* ------------------------------------------------------- C6, C7, C8, C9

\* The positions of the row-limit clauses: the keyword LIMIT with its number.
LimitClauses(c) ==
    {i \in 1..(Len(c) - 1) :
        IsKeyword(c[i]) /\ Upper(c[i].v) = "LIMIT" /\ c[i + 1].k = "n"}

LimitValues(c) == {NumVal[c[i + 1].v] : i \in LimitClauses(c)}

\* C6: an accepted candidate without a row-limit clause is returned with a
\* row-limit clause of at most 1000 rows, also when the word LIMIT stands in
\* it inside an identifier or a string literal only.
C6_LimitInjected ==
    (san # "none" /\ res.ok /\ LimitClauses(inp) = {}) =>
        /\ LimitClauses(res.text) # {}
        /\ \A n \in LimitValues(res.text) : n <= MaxRows

\* C7: a candidate that carries a row-limit clause is rejected or returned
\* with a limit of at most max_rows, never with its larger limit.
C7_LimitNotAboveMax ==
    (san # "none" /\ res.ok /\ LimitClauses(inp) # {}) =>
        \A n \in LimitValues(res.text) : n <= MaxRows

\* C8: validating a validated statement again accepts it and returns it
\* unchanged.
C8_Idempotent == again # Pending => (again.ok /\ again.text = res.text)

\* C9: for an accepted candidate that ends with ';' and has no limit clause
\* the limit goes before the ';', the result being one statement that ends
\* with ';'; the WHERE latitude BETWEEN -40 AND -10 scenario validates to
\* the same text with LIMIT 1000 before the ';'.
C9_LimitBeforeTerminator ==
    san # "none" =>
        /\ (/\ res.ok /\ inp # <<>> /\ inp[Len(inp)].k = "semi"
            /\ LimitClauses(inp) = {})
             => /\ FirstOfKind(res.text, "semi") = Len(res.text)
                /\ Len(res.text) - 2 \in LimitClauses(res.text)
        /\ inp = PScenario \o PSemi
             => /\ res.ok
                /\ res.text = PScenario \o <<W("LIMIT"), N("1000"), Semi("")>>

\* -------------------------------------------------------------------- C10

\* The first token that is no comment.
FirstToken(c) == StripComments(c)[1]

BeginsWithEntry(c) ==
    /\ StripComments(c) # <<>>
    /\ FirstToken(c).k = "w" /\ Upper(FirstToken(c).v) \in {"SELECT", "WITH"}

\* C10: a candidate whose first token is neither SELECT nor WITH is rejected,
\* and one whose first token is SELECT or WITH is not rejected on the
\* entry-point rule.
C10_EntryPoint ==
    san # "none" =>
        /\ ~BeginsWithEntry(inp) => ~res.ok
        /\ BeginsWithEntry(inp) => res.rule # "entry_point"

\* ------------------------------------------------------------ the pipeline

Init ==
    /\ HarnessIdle
    /\ app \in Apps
    /\ PipelineIdle

\* The question texts a caller may type; "" is a blank one.
Questions == {"q1", "q2", ""}

\* The vector index as a request may find it.
IndexStates == {"filled", "empty", "unreachable"}

generation ==
    <<question, index, context, retrieved, generated, raw, sql_query>>

caches == <<requests, sql_cache, fetch_cache>>

\* The questions generate_sql holds a cached return value for, and the
\* statements run_sql_fetch holds one for.
CachedQuestions == {e.q : e \in sql_cache}

CachedStatements == {e.sql : e \in fetch_cache}

\* A retrieval that raises when the index cannot return the k documents asked
\* for, an empty index included.
RetrievalStrict(idx) ==
    IF idx = "filled" THEN [ok |-> TRUE, context |-> "docs"]
    ELSE [ok |-> FALSE, context |-> "unset"]

\* model.encode, collection.query and "\n".join(results["documents"][0]): an
\* index (or embedding model) that cannot be reached raises; an index without
\* entries gives no documents, which join to the empty context.
Retrieval(idx) ==
    IF idx = "unreachable" THEN [ok |-> FALSE, context |-> "unset"]
    ELSE [ok |-> TRUE, context |-> IF idx = "empty" THEN "" ELSE "docs"]

\* conn = engine.connect() ... conn.close() in place of the with block: a
\* query that raises (r = "none") leaves its connection checked out.
ConnectThenClose(n, r) == IF r = "none" THEN n + 1 ELSE n

\* with engine.connect() as conn: df = pd.read_sql(...): the connection is
\* checked out on entry and given back on every way out of the block,
\* whatever the outcome r of the query.
WithConnection(n, r) == (n + 1) - 1

\* The except branch followed by another go at the generate stage.
FailAndRetry(kind) ==
    /\ pc' = "generating"
    /\ processing' = FALSE
    /\ outcome' = kind
    /\ last_result' = IF app = "dashboard" THEN NoResult ELSE last_result

\* The except branch of the front end: the dashboard sets last_result to None
\* and resets the flag, the other two print the error.
Fail(kind) ==
    /\ pc' = "failed"
    /\ processing' = FALSE
    /\ outcome' = kind
    /\ last_result' = IF app = "dashboard" THEN NoResult ELSE last_result

\* The submit handler that starts the pipeline whatever the question is.
SubmitUnchecked ==
    /\ pc = "idle"
    /\ \E q \in Questions :
         /\ app = "chat" => q # ""
         /\ question' = q
         /\ index' \in IndexStates
         /\ requests' = requests + 1
         /\ pc' = IF app = "dashboard" THEN "retrieving" ELSE "generating"
         /\ processing' = (app = "dashboard")
         /\ outcome' = outcome
    /\ UNCHANGED <<harness, app, sql_cache, fetch_cache, checked_out,
                   last_result, context, retrieved, generated, raw, sql_query,
                   verdict, db_sql, df, summarized, summary>>

\* A question is submitted.  The dashboard sets the processing flag and
\* retrieves first; in the other two generate_sql retrieves by itself.  The
\* dashboard answers a blank question with a warning and starts nothing; the
\* chat input never delivers a blank one.
Submit ==
    /\ pc = "idle"
    /\ \E q \in Questions :
         /\ app = "chat" => q # ""
         /\ IF app = "dashboard" /\ q = ""
            THEN /\ outcome' = "warning"
                 /\ UNCHANGED <<question, index, requests, pc, processing>>
            ELSE /\ question' = q
                 /\ index' \in IndexStates
                 /\ requests' = requests + 1
                 /\ pc' = IF app = "dashboard" THEN "retrieving" ELSE "generating"
                 /\ processing' = (app = "dashboard")
                 /\ outcome' = outcome
    /\ UNCHANGED <<harness, app, sql_cache, fetch_cache, checked_out,
                   last_result, context, retrieved, generated, raw, sql_query,
                   verdict, db_sql, df, summarized, summary>>

\* RAG_Engine.retrieve_context: returns the context or raises.
RetrieveContext ==
    /\ pc = "retrieving"
    /\ retrieved' = retrieved + 1
    /\ IF Retrieval(index).ok
       THEN /\ context' = Retrieval(index).context
            /\ pc' = "generating"
            /\ UNCHANGED <<processing, outcome, last_result>>
       ELSE /\ Fail("error")
            /\ context' = context
    /\ UNCHANGED <<harness, app, caches, checked_out, question, index,
                   generated, raw, sql_query, verdict, db_sql, df, summarized,
                   summary>>

\* generate_sql with the completion returning one of outputs: the completion
\* call (and, outside the dashboard, the retrieval before it) raises, or its
\* output is cleaned and returned.  In the chat front end the body runs only
\* when st.cache_data holds nothing for the question, and a returned value is
\* stored under it.
GenerateSqlFrom(outputs) ==
    /\ pc = "generating"
    /\ app = "chat" => question \notin CachedQuestions
    /\ retrieved' = IF app = "dashboard" THEN retrieved ELSE retrieved + 1
    /\ IF app # "dashboard" /\ ~Retrieval(index).ok
       THEN /\ Fail("error")
            /\ UNCHANGED <<context, generated, raw, sql_query, sql_cache>>
       ELSE /\ context' = IF app = "dashboard" THEN context
                          ELSE Retrieval(index).context
            /\ generated' = generated + 1
            /\ \/ \E out \in outputs :
                    /\ raw' = out
                    /\ sql_query' = Extract(app, out)
                    /\ sql_cache' =
                         IF app = "chat"
                         THEN sql_cache \cup
                                {[q |-> question, sql |-> Extract(app, out)]}
                         ELSE sql_cache
                    /\ pc' = "executing"
                    /\ UNCHANGED <<processing, outcome, last_result>>
               \/ /\ Fail("error")
                  /\ UNCHANGED <<raw, sql_query, sql_cache>>
    /\ UNCHANGED <<harness, app, requests, fetch_cache, checked_out, question,
                   index, verdict, db_sql, df, summarized, summary>>

GenerateSql == GenerateSqlFrom(RawOutputs)

\* generate_sql of the chat front end when st.cache_data holds a value for the
\* question: the body does not run, the stored statement is returned.
GenerateSqlCached ==
    /\ pc = "generating"
    /\ app = "chat" /\ question \in CachedQuestions
    /\ sql_query' = (CHOOSE e \in sql_cache : e.q = question).sql
    /\ pc' = "executing"
    /\ UNCHANGED <<harness, app, caches, checked_out, last_result, processing,
                   question, index, context, retrieved, generated, raw,
                   verdict, db_sql, df, summarized, summary, outcome>>

DbResults == {"none", "empty", "rows"}

\* execute_sql with the query sent before the sanitizer has spoken: the text
\* goes to the database whatever the verdict.
ExecuteSqlUnchecked ==
    /\ pc = "executing" /\ app = "dashboard"
    /\ verdict' = SanitizeRag(sql_query)
    /\ db_sql' = Append(db_sql, sql_query)
    /\ df' \in DbResults
    /\ checked_out' = WithConnection(checked_out, df')
    /\ pc' = "summarizing"
    /\ UNCHANGED <<harness, app, caches, last_result, processing, generation,
                   summarized, summary, outcome>>

\* RAG_Engine.execute_sql: sanitize, then query; every exception (the
\* sanitizer's ValueError, a database error) is caught and None returned.
ExecuteSqlRag ==
    /\ pc = "executing" /\ app = "dashboard"
    /\ verdict' = SanitizeRag(sql_query)
    /\ IF verdict'.ok
       THEN /\ db_sql' = Append(db_sql, verdict'.text)
            /\ df' \in DbResults
            /\ checked_out' = WithConnection(checked_out, df')
       ELSE /\ db_sql' = db_sql
            /\ df' = "none"
            /\ checked_out' = checked_out
    /\ pc' = "summarizing"
    /\ UNCHANGED <<harness, app, caches, last_result, processing, generation,
                   summarized, summary, outcome>>

\* What the cli and the chat front end show for a result: the cli prints the
\* fixed sentence for an empty one and the table otherwise; the chat front end
\* warns with a longer sentence for an empty one and shows the table otherwise.
Shown(a, r) ==
    IF r = "rows" THEN "table"
    ELSE IF a = "cli" THEN "The query returned no results."
    ELSE "**The query returned no results.** Try asking a question that fits within the available data ranges shown above."

\* run_sql_fetch (main_app, streamlit_app): sanitize, then query; a ValueError
\* of the sanitizer and an error of the database reach the caller, which
\* reports the first as a security error.  A result is shown.  In the chat
\* front end the body runs only when st.cache_data holds nothing for the
\* statement, and a returned value is stored under it.
RunSqlFetch ==
    /\ pc = "executing" /\ app \in {"cli", "chat"}
    /\ app = "chat" => sql_query \notin CachedStatements
    /\ verdict' = Sanitize(app, sql_query)
    /\ IF verdict'.ok
       THEN /\ db_sql' = Append(db_sql, verdict'.text)
            /\ \E r \in DbResults :
                 /\ checked_out' = WithConnection(checked_out, r)
                 /\ IF r = "none"
                    THEN Fail("error") /\ UNCHANGED <<df, summary, fetch_cache>>
                    ELSE /\ df' = r
                         /\ pc' = "done"
                         /\ outcome' = "result"
                         /\ summary' = Shown(app, r)
                         /\ UNCHANGED <<processing, last_result>>
                         /\ fetch_cache' =
                              IF app = "chat"
                              THEN fetch_cache \cup {[sql |-> sql_query, df |-> r]}
                              ELSE fetch_cache
       ELSE /\ Fail("security_error")
            /\ UNCHANGED <<db_sql, df, summary, fetch_cache, checked_out>>
    /\ UNCHANGED <<harness, app, requests, sql_cache, generation, summarized>>

\* run_sql_fetch of the chat front end when st.cache_data holds a value for
\* the statement: neither the sanitizer nor the database is reached, the
\* stored result is returned.
RunSqlFetchCached ==
    /\ pc = "executing"
    /\ app = "chat" /\ sql_query \in CachedStatements
    /\ df' = (CHOOSE e \in fetch_cache : e.sql = sql_query).df
    /\ summary' = Shown(app, df')
    /\ pc' = "done"
    /\ outcome' = "result"
    /\ UNCHANGED <<harness, app, caches, checked_out, last_result, processing,
                   generation, verdict, db_sql, summarized>>

\* The record stream_app.py stores for the request.
Record(text) ==
    [req |-> requests, summary |-> text, sql |-> sql_query, df |-> df]

\* stream_app.py lines 177-194: the summary is asked of the generator only for
\* a result that is not None and not empty; the record is stored and the flag
\* reset.  A completion that raises ends in the except branch.
Summarize ==
    /\ pc = "summarizing"
    /\ IF df = "rows"
       THEN /\ summarized' = summarized + 1
            /\ \/ /\ summary' = "generated"
                  /\ last_result' = Record("generated")
                  /\ pc' = "done"
                  /\ processing' = FALSE
                  /\ outcome' = "result"
               \/ /\ Fail("error")
                  /\ summary' = summary
       ELSE /\ summarized' = summarized
            /\ summary' = "Query executed successfully."
            /\ last_result' = Record("Query executed successfully.")
            /\ pc' = "done"
            /\ processing' = FALSE
            /\ outcome' = "result"
    /\ UNCHANGED <<harness, app, caches, checked_out, generation, verdict,
                   db_sql, df>>

Next ==
    \/ Submit
    \/ RetrieveContext
    \/ GenerateSql
    \/ ExecuteSqlRag
    \/ RunSqlFetch
    \/ Summarize

Spec == Init /\ [][Next]_vars

\* ------------------------------------------------- several requests in a row

\* What the generator emits in a session of several requests.
SessionOutputs ==
    {PSelect \o PFromProfiles, PSelect \o PFromProfiles \o PLimitBig,
     PDropTable \o PSemi}

GenerateSqlSession == GenerateSqlFrom(SessionOutputs)

\* The caller asks again after a request has ended: the next script run (the
\* next turn of the cli loop) starts with nothing of the last request but what
\* the session holds.
NewRequest ==
    /\ pc \in {"done", "failed"}
    /\ requests < MaxRequests
    /\ pc' = "idle"
    /\ processing' = FALSE
    /\ question' = "none"
    /\ index' = "unknown"
    /\ context' = "unset"
    /\ retrieved' = 0
    /\ generated' = 0
    /\ raw' = <<>>
    /\ sql_query' = <<>>
    /\ verdict' = Pending
    /\ db_sql' = <<>>
    /\ df' = "unset"
    /\ summarized' = 0
    /\ summary' = "none"
    /\ outcome' = "none"
    /\ UNCHANGED <<harness, session>>

NextSession ==
    \/ Submit
    \/ RetrieveContext
    \/ GenerateSqlSession
    \/ GenerateSqlCached
    \/ ExecuteSqlRag
    \/ RunSqlFetch
    \/ RunSqlFetchCached
    \/ Summarize
    \/ NewRequest

SpecSession == Init /\ [][NextSession]_vars

\* ------------------------------------------------------------------ C3, C4

\* C3: when the sanitizer rejects the candidate of a request, no text is
\* handed to the database and no summary is asked of the generator for it.
C3_RejectedNeverExecuted ==
    (verdict # Pending /\ ~verdict.ok) => (db_sql = <<>> /\ summarized = 0)

\* DROP TABLE profiles; went through the dashboard pipeline to its end.
C3_Witness ==
    /\ app = "dashboard"
    /\ pc = "done"
    /\ sql_query = PDropTable \o PSemi
    /\ ~verdict.ok /\ verdict.rule = "forbidden_keyword"

\* The five conditions of a validated statement.
IsValidatedStatement(c) ==
    /\ BeginsWithEntry(c)
    /\ ~HasForbiddenWord(c)
    /\ ReferencedTables(c) \subseteq ALLOWED_TABLES
    /\ FirstOfKind(c, "semi") \in {0, Len(c)}
    /\ LimitClauses(c) # {}
    /\ \A n \in LimitValues(c) : n <= MaxRows

\* C4: every text handed to the database begins with SELECT or WITH, has no
\* forbidden keyword, names allowed tables only, is one statement and
\* carries a row limit of at most 1000.
C4_OnlyValidatedExecuted ==
    \A i \in 1..Len(db_sql) : IsValidatedStatement(db_sql[i])

\* --------------------------------------------------------------------- C11

RuleNames == {"forbidden_keyword", "entry_point", "table_not_allowed"}

\* C11: every rejection by a sanitizer carries the name of the violated rule
\* and the offending token; SELECT * FROM users; is rejected with rule
\* table_not_allowed and token users, and a forbidden-keyword rejection
\* names the keyword found.
C11_RejectionNamesRuleAndToken ==
    san # "none" =>
        /\ ~res.ok => (res.rule \in RuleNames /\ res.token # <<>>)
        /\ (~res.ok /\ res.rule = "forbidden_keyword")
             => (Len(res.token) = 1 /\ res.token[1] \in ForbiddenSet \cup {";"}
                 /\ ReSearch(res.token[1], Format(inp)))
        /\ inp = PSelectStar \o PFromUsers \o PSemi
             => (~res.ok /\ res.rule = "table_not_allowed"
                 /\ res.token = <<"users">>)

\* ------------------------------------------------------- C12, C13, C14, C15

\* The raw output has an opening fence and a closing fence after it.
ClosedFence(r) ==
    /\ FirstOfKind(r, "fence") # 0
    /\ FirstOfKind(SubSeq(r, FirstOfKind(r, "fence") + 1, Len(r)), "fence") # 0

\* The text strictly between the first fence and the next one, without the
\* white space around it.
Between(r) ==
    LET rest == SubSeq(r, FirstOfKind(r, "fence") + 1, Len(r))
    IN  Strip(SubSeq(rest, 1, FirstOfKind(rest, "fence") - 1))

\* What is left of a text cut after its first ';'.
UpToSemi(c) ==
    IF FirstOfKind(c, "semi") = 0 THEN c
    ELSE SubSeq(c, 1, FirstOfKind(c, "semi") - 1) \o <<Semi("")>>

\* C12: from a raw output with a fenced block the candidate is the text
\* between the first opening fence and the next closing fence (cut after its
\* first ';'), with or without a language tag on the opening fence; the
\* ```sql block holding SELECT 1; followed by a bracketed line gives exactly
\* SELECT 1;.
C12_FencedBlockExtracted ==
    raw # <<>> =>
        /\ ClosedFence(raw) => sql_query \in {Between(raw), UpToSemi(Between(raw))}
        /\ raw = PFencedOne \o PNote
             => sql_query = <<W("SELECT"), N("1"), Semi("")>>

\* The positions of the ';' of a text.
Semis(c) == {i \in 1..Len(c) : c[i].k = "semi"}

\* c stands in t as one piece.
IsPieceOf(c, t) ==
    \E i \in 1..(Len(t) + 1) : \E j \in (i - 1)..Len(t) : SubSeq(t, i, j) = c

\* C13: from a raw output that contains a ';' the candidate has exactly one
\* ';', as its last character, and holds nothing of what followed the first
\* ';' of the raw output.
C13_CutAtFirstTerminator ==
    (raw # <<>> /\ Semis(raw) # {}) =>
        /\ Semis(sql_query) = {Len(sql_query)}
        /\ IsPieceOf(SubSeq(sql_query, 1, Len(sql_query) - 1),
                     SubSeq(raw, 1, FirstOfKind(raw, "semi") - 1))

\* The lines of a raw output that stand before its first '[' line.
BeforeNote(r) == Strip(SubSeq(r, 1, FirstOfKind(r, "note") - 1))

\* C14: from a raw output without a fence the candidate is made of the lines
\* before the first line that opens with '[' (cut after its first ';'); that
\* line and every later line are absent from it.
C14_StopsAtExplanation ==
    (raw # <<>> /\ FirstOfKind(raw, "fence") = 0 /\ FirstOfKind(raw, "note") # 0)
        => /\ FirstOfKind(sql_query, "note") = 0
           /\ sql_query \in {BeforeNote(raw), UpToSemi(BeforeNote(raw))}

\* The request has left the generate stage without a failure.
PastGeneration == pc \in {"executing", "summarizing", "done"}

\* C15: a request leaves the generate stage for validation and execution only
\* with a candidate that is not empty; an empty extracted text ends the
\* request in the generate stage, and no empty candidate is put before the
\* sanitizer.
C15_EmptyCandidateStopped ==
    /\ PastGeneration => sql_query # <<>>
    /\ verdict # Pending => sql_query # <<>>

\* --------------------------------------------------------------------- C16

\* C16: when the query of a request ran and returned an empty result, the
\* summary the caller gets is exactly "The query returned no results." and
\* the summarize stage has called no completion.
C16_EmptyResultSummary ==
    (pc = "done" /\ df = "empty") =>
        /\ summary = "The query returned no results."
        /\ summarized = 0

\* --------------------------------------------------------------------- C17

\* The place of each stage in the order of the pipeline.  Validation is the
\* first half of the execute stage (execute_sql, run_sql_fetch).
Rank ==
    ("idle" :> 0) @@ ("retrieving" :> 1) @@ ("generating" :> 2) @@
    ("executing" :> 3) @@ ("summarizing" :> 4) @@ ("done" :> 5) @@
    ("failed" :> 5)

\* C17: within one request the stage only moves forward in the order
\* retrieving, generating, validating and executing, summarizing, done; no
\* stage is entered twice or again after a failure, a text reaches the
\* database only after the sanitizer has accepted it, and done and failed are
\* left only by the start of the next request.
C17_StagesOnlyForward ==
    [][/\ (pc' # pc /\ pc' # "idle")
            => (pc \notin {"done", "failed"} /\ Rank[pc'] > Rank[pc])
       /\ (pc' # pc /\ pc' = "idle") => pc \in {"done", "failed"}
       /\ Len(db_sql') > Len(db_sql) => (pc = "executing" /\ verdict'.ok)]_vars

\* A second request of the dashboard failed in its summarize stage.
C17_Witness ==
    /\ app = "dashboard"
    /\ requests = 2
    /\ pc = "failed"
    /\ summarized = 1
    /\ verdict.ok

\* ---------------------------------------------------------------- C18, C19

\* The sanitizer has rejected the candidate of the request.
ValidationFailed == verdict # Pending /\ ~verdict.ok

\* The validated statement was handed to the database and no result came
\* back.
ExecutionFailed ==
    /\ verdict.ok
    /\ db_sql # <<>>
    /\ df \in {"none", "unset"}
    /\ pc \in {"summarizing", "done", "failed"}

Ended == pc \in {"done", "failed"}

\* C18: a request in which validation or execution failed (as one in which
\* retrieval or generation failed) ends as a failure with an error shown to
\* the caller, never as a result with SQL, rows and summary.
C18_NoFailureSwallowed ==
    (Ended /\ (ValidationFailed \/ ExecutionFailed)) =>
        /\ pc = "failed"
        /\ outcome \in {"error", "security_error"}

\* C19: at the end of a request a rejection by the sanitizer is reported as a
\* validation (security) error and a database failure on a validated
\* statement as another kind of error, so that the caller can tell the two
\* apart.
C19_RejectionAndDbErrorDiffer ==
    Ended =>
        /\ ValidationFailed => outcome = "security_error"
        /\ ExecutionFailed => outcome = "error"

\* --------------------------------------------------------------------- C20

\* C20: every request that ends with a result has made its own retrieval, its
\* own SQL completion and its own query of the database, whatever earlier
\* requests asked or ran; nothing produced for an earlier request is served
\* to it.
C20_RequestsIndependent ==
    (pc = "done" /\ df \in {"empty", "rows"}) =>
        /\ retrieved = 1
        /\ generated = 1
        /\ Len(db_sql) = 1

\* --------------------------------------------------------------------- C21

\* C21: the connection an execute stage checks out is given back when the
\* stage ends, with a result or with a database error (a timeout of the
\* database is one); no request that has finished or failed holds a
\* connection, however many requests went before.
C21_ConnectionsReleased == checked_out = 0

\* The second request of a session ended with a database error on a
\* validated statement.
C21_Witness ==
    /\ requests = 2
    /\ Ended
    /\ ExecutionFailed
    /\ checked_out = 0

\* --------------------------------------------------------------------- C22

\* The request failed in its retrieval: after a retrieval, before any
\* completion was called.
RetrievalFailed == pc = "failed" /\ retrieved >= 1 /\ generated = 0

\* C22: a retrieval from an index that is reachable but has no entries raises
\* nothing and gives the empty context, with which the SQL completion is then
\* called; a retrieval fails only when the index or the embedding function
\* cannot be reached.
C22_EmptyIndexIsNoError ==
    /\ (index = "empty" /\ retrieved >= 1) => (context = "" /\ ~RetrievalFailed)
    /\ (index = "empty" /\ (PastGeneration \/ pc = "failed")) => generated = 1
    /\ RetrievalFailed => index = "unreachable"

\* A dashboard request that found the index empty ran to its end with the
\* empty context.
C22_Witness ==
    /\ app = "dashboard"
    /\ index = "empty"
    /\ context = ""
    /\ generated = 1
    /\ pc = "done"

\* --------------------------------------------------------------------- C23

\* The candidate has a string literal whose content is a forbidden keyword.
HasForbiddenString(c) ==
    \E i \in 1..Len(c) : c[i].k = "s" /\ Upper(c[i].v) \in ForbiddenSet

\* C23: a candidate in which no forbidden keyword stands as a whole token
\* (one may stand inside a string literal or inside a longer identifier such
\* as created_at or updated) is not rejected on the forbidden-keyword rule,
\* and one in which a forbidden keyword stands as a whole token is.
C23_TokenBoundaryScan ==
    san # "none" => (HasForbiddenWord(inp) <=> RejectedAsForbidden)

\* --------------------------------------------------------------------- C24

\* The forbidden keywords that stand in the candidate outside its comments.
Present(c) ==
    {f \in ForbiddenSet :
        \E i \in 1..Len(c) : c[i].k \in {"w", "s"} /\ Upper(c[i].v) = f}

\* The place of a keyword in the fixed list.
ListIndex(f) == CHOOSE i \in 1..Len(ForbiddenKeywords) : ForbiddenKeywords[i] = f

\* The keyword of a set that comes first in the fixed list.
EarliestListed(fs) == CHOOSE f \in fs : \A g \in fs : ListIndex(f) <= ListIndex(g)

\* C24: a candidate that holds forbidden keywords is reported as a
\* forbidden-keyword violation, also when it breaks the entry-point rule as
\* well, and the keyword reported is the one that comes first in the list
\* INSERT, UPDATE, DELETE, DROP, ALTER, CREATE, TRUNCATE, GRANT, REVOKE,
\* wherever the keywords stand in the text.
C24_FirstRuleFirstKeyword ==
    (san # "none" /\ Present(inp) # {}) =>
        /\ RejectedAsForbidden
        /\ res.token = <<EarliestListed(Present(inp))>>

\* DROP TABLE profiles insert: two keywords, the later in the text is the
\* earlier in the list, and the text does not begin with SELECT.
C24_Witness ==
    /\ san = "cli"
    /\ inp = PDropTable \o PInsert
    /\ RejectedAsForbidden
    /\ res.token = <<"INSERT">>

\* --------------------------------------------------------------------- C25

\* What holds of the dashboard after a processed submission, whatever made
\* last_result None.
DashboardRecord ==
    /\ Ended => processing = FALSE
    /\ pc = "failed" => last_result = NoResult
    /\ pc = "done"
         => last_result = [req |-> requests, summary |-> summary,
                           sql |-> sql_query, df |-> df]
    /\ Ended => last_result.req \in {0, requests}
    /\ (Ended /\ verdict # Pending) => (summarized = 1 <=> df = "rows")
    /\ (Ended /\ verdict = Pending) => summarized = 0
    /\ (pc = "done" /\ df # "rows")
         => last_result.summary = "Query executed successfully."
    /\ (pc # "idle" \/ processing) => question \notin {"", "none"}

\* C25 as stated: after a processed submission of the dashboard the flag is
\* False and last_result is None, an exception having escaped retrieval or
\* generation, or the record of the current request; summarize_results is
\* called exactly for a result that is neither None nor empty and otherwise
\* the stored summary is the default; no record of an earlier request is left
\* and a blank question starts nothing.
C25_DashboardFlags ==
    app = "dashboard" =>
        /\ DashboardRecord
        /\ (Ended /\ last_result = NoResult) => (verdict = Pending /\ summarized = 0)

\* C25 amended: the same, with last_result None whenever an exception escaped
\* retrieval, generation or summarize_results.
C25_DashboardFlagsAnyException ==
    app = "dashboard" =>
        /\ DashboardRecord
        /\ (Ended /\ last_result = NoResult)
             => (verdict = Pending \/ (df = "rows" /\ summarized = 1))

\* The second processed submission of a dashboard session ended with its own
\* record and a generated summary.
C25_Witness ==
    /\ app = "dashboard"
    /\ requests = 2
    /\ pc = "done"
    /\ df = "rows"
    /\ summarized = 1
    /\ last_result.req = 2
    /\ ~processing

====
